---- MODULE Spec2Model ----
(***************************************************************************)
(* Model of shred's MetaTable (src/meta.rs): a registry that captures the  *)
(* vtable word of a trait-object reference once per resource type and      *)
(* replays it against the address of any resource of that type, plus the   *)
(* MetaIter / MetaIterMut cursors that walk the registered types over a    *)
(* Resources store.                                                        *)
(***************************************************************************)
EXTENDS Integers, Sequences, FiniteSets, TLC

(* ------------------------------ bounds --------------------------------- *)
\* number of register calls explored
MaxRegs == 3
\* number of method2 calls explored
MaxMuts == 2
\* cap on the cursor of a MetaIter / MetaIterMut (it grows on every next())
MaxIndex == 4
\* number of distinct vtable addresses the build may emit for one (type, trait)
NumVtableCopies == 2

(* ------------------------------ universe ------------------------------- *)
\* the two implementors of the trait `Object`
Implementors == {"ImplementorA", "ImplementorB"}
\* a resource type without an `Object` implementation (cannot be registered)
ResourceTypes == Implementors \cup {"Other"}
\* states the store's resources are inserted with
StoreVals == {1, 3}
\* states of the throwaway instances given to register
SampleVals == {125, 111111}
\* arguments given to method2
Method2Args == {3, 4}
\* size_of::<&T>() in machine words: 2 for a trait object, 1 for a sized T
RefWordChoices == {1, 2}

\* Option<_>: None, Some(x) and unwrap
None == <<>>
Some(x) == <<x>>
Unwrap(o) == o[1]

\* TypeId::of::<R>() / Any::get_type_id: an injective tag of the type
TypeIdOf(t) == <<"TypeId", t>>
TypeIds == {TypeIdOf(t) : t \in ResourceTypes}

(* ------------------------------ memory --------------------------------- *)
\* addresses of the store's resource with a given type id and of the
\* temporary given to register
StoreAddr(id) == [loc |-> "res", id |-> id]
SampleAddr == [loc |-> "sample", id |-> <<>>]

\* the vtable of implementor t for the trait, in one of its emitted copies
Vtable(t, c) == [vt |-> t, copy |-> c]
Vtables == {Vtable(t, c) : t \in Implementors, c \in 1..NumVtableCopies}

VARIABLES
  refWords,  \* size_of::<&T>() in words for the table's type parameter T
  status,    \* "start", "ready" or "panicked"
  ctor,      \* constructor that produced the table: "none", "new", "default"
  panicAt,   \* where assert_unsized failed: "none", "new", "register"
  table,     \* MetaTable { fat, indices, tys }
  res,       \* Resources: type id -> Option of the resource held
  it,        \* the live MetaIter / MetaIterMut, if any
  last,      \* result of the latest get / get_mut / next
  nRegs,     \* history: number of register calls made
  order,     \* history: implementors in the order of their first register
  latest,    \* history: implementor -> vtable word its latest register saw
  res0,      \* history: state each resource was inserted with
  muts       \* history: per type id, the method2 arguments applied in order

vars == <<refWords, status, ctor, panicAt, table, res, it, last,
          nRegs, order, latest, res0, muts>>

\* the live object at an address, if any
Load(store, addr) ==
  IF addr.loc = "res" THEN store[addr.id] ELSE None

(* ------------------------- trait Object -------------------------------- *)
\* impl Object for ImplementorA / ImplementorB: method2 on state v
Method2Impl(t, v, x) ==
  IF t = "ImplementorA" THEN v + x ELSE v * x

IsVtable(w) == w \in Vtables

\* a trait-object reference <<data, vtable>> is well formed when its second
\* word is the vtable of the type of the object its first word addresses
WellTyped(store, ptr) ==
  /\ IsVtable(ptr[2])
  /\ Load(store, ptr[1]) # None
  /\ Unwrap(Load(store, ptr[1])).ty = ptr[2].vt

\* anything a call through an ill-formed reference may produce
Garbage == StoreVals \cup SampleVals \cup {0, -1}

\* outcomes of ptr.method1()
Method1Outcomes(store, ptr) ==
  IF WellTyped(store, ptr)
  THEN {Unwrap(Load(store, ptr[1])).val}
  ELSE Garbage

\* outcomes of ptr.method2(x): the new state of the object at ptr's address
Method2Outcomes(store, ptr, x) ==
  IF WellTyped(store, ptr)
  THEN {Method2Impl(ptr[2].vt, Unwrap(Load(store, ptr[1])).val, x)}
  ELSE Garbage

(* --------------------------- CastFrom ---------------------------------- *)
\* <T as CastFrom<R>>::cast(r): the unsizing coercion of &R to &T
cast(r, c) == <<r.addr, Vtable(r.ty, c)>>

(* ------------------------------ Fat ------------------------------------ *)
\* read::<usize>(fat_ptr.offset(n))
ReadWord(ref, n) == ref[n + 1]

assert_unsized_off(words) == TRUE

\* assert_eq!(size_of::<&T>(), 2 * size_of::<usize>())
assert_unsized(words) == words = 2 * 1

from_ptr_data(t) == ReadWord(t, 0)

\* Fat::from_ptr (after its assertion): the vtable word of the reference
from_ptr(t) == ReadWord(t, 1)

\* Fat::create_ptr: (ptr, self.0) reinterpreted as *const T
create_ptr(fat, ptr) == <<ptr, fat>>

(* ---------------------------- Resources -------------------------------- *)
\* Resources::get_mut_raw
get_mut_raw(store, id) ==
  IF store[id] = None THEN None ELSE Some(StoreAddr(id))

\* Resources::new()
EmptyStore == [id \in TypeIds |-> None]

(* ---------------------------- MetaTable -------------------------------- *)
DefaultTable_seeded ==
  [fat |-> <<Vtable("ImplementorA", 1)>>,
   indices |-> (TypeIdOf("ImplementorA") :> 0),
   tys |-> <<TypeIdOf("ImplementorA")>>]

\* impl Default for MetaTable
DefaultTable == [fat |-> <<>>, indices |-> <<>>, tys |-> <<>>]

NoTable == [fat |-> <<>>, indices |-> <<>>, tys |-> <<>>, none |-> TRUE]

\* FxHashMap::get
MapGet(m, k) == IF k \in DOMAIN m THEN Some(m[k]) ELSE None

\* Vec index / slice::get with the code's 0-based indices
At(s, i) == s[i + 1]
SliceGet(s, i) == IF i < Len(s) THEN Some(s[i + 1]) ELSE None

register_front(tbl, fat, ty_id) ==
  IF ty_id \in DOMAIN tbl.indices
  THEN [tbl EXCEPT !.fat[tbl.indices[ty_id] + 1] = fat]
  ELSE [fat |-> <<fat>> \o tbl.fat,
        indices |-> [k \in DOMAIN tbl.indices \cup {ty_id} |->
                       IF k = ty_id THEN 0 ELSE tbl.indices[k] + 1],
        tys |-> <<ty_id>> \o tbl.tys]

register_dup(tbl, fat, ty_id) ==
  [fat |-> Append(tbl.fat, fat),
   indices |-> [k \in DOMAIN tbl.indices \cup {ty_id} |->
                  IF k = ty_id THEN Len(tbl.tys) ELSE tbl.indices[k]],
   tys |-> Append(tbl.tys, ty_id)]

register_slot0(tbl, fat, ty_id) ==
  LET len == Cardinality(DOMAIN tbl.indices) IN
  IF ty_id \in DOMAIN tbl.indices
  THEN [tbl EXCEPT !.fat[1] = fat]
  ELSE [fat |-> Append(tbl.fat, fat),
        indices |-> [k \in DOMAIN tbl.indices \cup {ty_id} |->
                       IF k = ty_id THEN len ELSE tbl.indices[k]],
        tys |-> Append(tbl.tys, ty_id)]

register_index0(tbl, fat, ty_id) ==
  IF ty_id \in DOMAIN tbl.indices
  THEN LET ind == tbl.indices[ty_id] IN
       [tbl EXCEPT !.fat[ind + 1] = fat]
  ELSE [fat |-> Append(tbl.fat, fat),
        indices |-> [k \in DOMAIN tbl.indices \cup {ty_id} |->
                       IF k = ty_id THEN 0 ELSE tbl.indices[k]],
        tys |-> Append(tbl.tys, ty_id)]

register_nopushtys(tbl, fat, ty_id) ==
  LET len == Cardinality(DOMAIN tbl.indices) IN
  IF ty_id \in DOMAIN tbl.indices
  THEN LET ind == tbl.indices[ty_id] IN
       [tbl EXCEPT !.fat[ind + 1] = fat]
  ELSE [fat |-> Append(tbl.fat, fat),
        indices |-> [k \in DOMAIN tbl.indices \cup {ty_id} |->
                       IF k = ty_id THEN len ELSE tbl.indices[k]],
        tys |-> tbl.tys]

\* MetaTable::register, from `let len = self.indices.len()` on
register(tbl, fat, ty_id) ==
  LET len == Cardinality(DOMAIN tbl.indices) IN
  IF ty_id \in DOMAIN tbl.indices
  THEN LET ind == tbl.indices[ty_id] IN
       [tbl EXCEPT !.fat[ind + 1] = fat]
  ELSE [fat |-> Append(tbl.fat, fat),
        indices |-> [k \in DOMAIN tbl.indices \cup {ty_id} |->
                       IF k = ty_id THEN len ELSE tbl.indices[k]],
        tys |-> Append(tbl.tys, ty_id)]

get_first(tbl, r) ==
  LET ind == MapGet(tbl.indices, TypeIdOf(r.ty)) IN
  IF ind # None THEN Some(create_ptr(At(tbl.fat, Unwrap(ind)), r.addr))
  ELSE IF Len(tbl.fat) > 0 THEN Some(create_ptr(At(tbl.fat, 0), r.addr))
  ELSE None

\* MetaTable::get
get(tbl, r) ==
  LET ind == MapGet(tbl.indices, TypeIdOf(r.ty)) IN
  IF ind = None THEN None
  ELSE Some(create_ptr(At(tbl.fat, Unwrap(ind)), r.addr))

get_mut_slot0(tbl, r) ==
  LET ind == MapGet(tbl.indices, TypeIdOf(r.ty)) IN
  IF ind = None THEN None ELSE Some(create_ptr(At(tbl.fat, 0), r.addr))

\* MetaTable::get_mut
get_mut(tbl, r) ==
  LET ind == MapGet(tbl.indices, TypeIdOf(r.ty)) IN
  IF ind = None THEN None
  ELSE Some(create_ptr(At(tbl.fat, Unwrap(ind)), r.addr))

(* ------------------------ MetaIter / MetaIterMut ----------------------- *)
RECURSIVE MetaIterNext(_, _, _, _)
RECURSIVE MetaIterNext_stop(_, _, _, _)
RECURSIVE MetaIterNext_wrap(_, _, _, _)
RECURSIVE MetaIterMutNext(_, _, _, _)
RECURSIVE MetaIterMutNext_fat0(_, _, _, _)
RECURSIVE MetaIterMutNext_stop(_, _, _, _)

MetaIterNext_stop(fat, tys, store, index) ==
  LET x == SliceGet(tys, index) IN
  IF x = None THEN [index |-> index + 1, item |-> None]
  ELSE LET raw == get_mut_raw(store, Unwrap(x)) IN
       IF raw # None
       THEN [index |-> index + 1,
             item |-> Some(create_ptr(At(fat, index), Unwrap(raw)))]
       ELSE [index |-> index + 1, item |-> None]

MetaIterNext_wrap(fat, tys, store, index) ==
  LET x == SliceGet(tys, index) IN
  IF x = None THEN [index |-> 0, item |-> None]
  ELSE LET raw == get_mut_raw(store, Unwrap(x)) IN
       IF raw # None
       THEN [index |-> index + 1,
             item |-> Some(create_ptr(At(fat, index), Unwrap(raw)))]
       ELSE MetaIterNext_wrap(fat, tys, store, index + 1)

\* MetaIter::next with self.index = index: the cursor after the call and
\* the item returned
MetaIterNext(fat, tys, store, index) ==
  LET x == SliceGet(tys, index) IN
  IF x = None THEN [index |-> index + 1, item |-> None]
  ELSE LET raw == get_mut_raw(store, Unwrap(x)) IN
       IF raw # None
       THEN [index |-> index + 1,
             item |-> Some(create_ptr(At(fat, index), Unwrap(raw)))]
       ELSE MetaIterNext(fat, tys, store, index + 1)

MetaIterMutNext_fat0(fat, tys, store, index) ==
  LET x == SliceGet(tys, index) IN
  IF x = None THEN [index |-> index + 1, item |-> None]
  ELSE LET raw == get_mut_raw(store, Unwrap(x)) IN
       IF raw # None
       THEN [index |-> index + 1,
             item |-> Some(create_ptr(At(fat, 0), Unwrap(raw)))]
       ELSE MetaIterMutNext_fat0(fat, tys, store, index + 1)

MetaIterMutNext_stop(fat, tys, store, index) ==
  LET x == SliceGet(tys, index) IN
  IF x = None THEN [index |-> index + 1, item |-> None]
  ELSE LET raw == get_mut_raw(store, Unwrap(x)) IN
       IF raw # None
       THEN [index |-> index + 1,
             item |-> Some(create_ptr(At(fat, index), Unwrap(raw)))]
       ELSE [index |-> index + 1, item |-> None]

\* MetaIterMut::next
MetaIterMutNext(fat, tys, store, index) ==
  LET x == SliceGet(tys, index) IN
  IF x = None THEN [index |-> index + 1, item |-> None]
  ELSE LET raw == get_mut_raw(store, Unwrap(x)) IN
       IF raw # None
       THEN [index |-> index + 1,
             item |-> Some(create_ptr(At(fat, index), Unwrap(raw)))]
       ELSE MetaIterMutNext(fat, tys, store, index + 1)

NoIter == [kind |-> "none", index |-> 0, yielded |-> <<>>, seen |-> <<>>]
NoLast == [op |-> "none", arg |-> None, from |-> 0, m |-> 0,
           ret |-> None, obs |-> None]

(* ------------------------------ actions -------------------------------- *)
Init ==
  /\ refWords \in RefWordChoices
  /\ status = "start"
  /\ ctor = "none"
  /\ panicAt = "none"
  /\ table = NoTable
  /\ res = EmptyStore
  /\ it = NoIter
  /\ last = NoLast
  /\ nRegs = 0
  /\ order = <<>>
  /\ latest = [t \in Implementors |-> None]
  /\ res0 = EmptyStore
  /\ muts = [id \in TypeIds |-> <<>>]

\* MetaTable::<T>::new()
New ==
  /\ status = "start"
  /\ IF assert_unsized(refWords)
     THEN /\ table' = DefaultTable
          /\ status' = "ready"
          /\ ctor' = "new"
          /\ UNCHANGED panicAt
     ELSE /\ status' = "panicked"
          /\ panicAt' = "new"
          /\ UNCHANGED <<table, ctor>>
  /\ UNCHANGED <<refWords, res, it, last, nRegs, order, latest, res0, muts>>

\* <MetaTable<T> as Default>::default()
Default ==
  /\ status = "start"
  /\ table' = DefaultTable
  /\ status' = "ready"
  /\ ctor' = "default"
  /\ UNCHANGED <<refWords, panicAt, res, it, last, nRegs, order, latest,
                 res0, muts>>

\* table.register(&R(sv)) for implementor t, whose vtable copy c the
\* coercion picks
Register(t, c, sv) ==
  /\ status = "ready"
  /\ it.kind = "none"
  /\ nRegs < MaxRegs
  /\ LET r == [addr |-> SampleAddr, ty |-> t, val |-> sv] IN
     IF assert_unsized(refWords)
     THEN /\ table' = register(table, from_ptr(cast(r, c)), TypeIdOf(t))
          /\ nRegs' = nRegs + 1
          /\ order' = IF \E i \in 1..Len(order) : order[i] = t
                       THEN order ELSE Append(order, t)
          /\ latest' = [latest EXCEPT ![t] = Some(Vtable(t, c))]
          /\ last' = NoLast
          /\ UNCHANGED <<status, panicAt>>
     ELSE /\ status' = "panicked"
          /\ panicAt' = "register"
          /\ UNCHANGED <<table, nRegs, order, latest, last>>
  /\ UNCHANGED <<refWords, ctor, res, it, res0, muts>>

\* res.insert(R(v)) for a type the store does not hold yet
Insert(t, v) ==
  /\ status = "ready"
  /\ it.kind = "none"
  /\ res[TypeIdOf(t)] = None
  /\ res' = [res EXCEPT ![TypeIdOf(t)] = Some([ty |-> t, val |-> v])]
  /\ res0' = [res0 EXCEPT ![TypeIdOf(t)] = Some([ty |-> t, val |-> v])]
  /\ last' = NoLast
  /\ UNCHANGED <<refWords, status, ctor, panicAt, table, it, nRegs, order,
                 latest, muts>>

\* the &Resource arguments a caller can form
Refs ==
  {[addr |-> StoreAddr(id), ty |-> Unwrap(res[id]).ty] :
      id \in {i \in TypeIds : res[i] # None}}

Get_inserting(r) ==
  /\ status = "ready"
  /\ it.kind = "none"
  /\ LET ret == get(table, r)
         id == TypeIdOf(r.ty) IN
     /\ table' = [table EXCEPT !.indices =
                     [k \in DOMAIN @ \cup {id} |->
                        IF k \in DOMAIN @ THEN @[k] ELSE Cardinality(DOMAIN @)]]
     /\ \E o \in (IF ret = None THEN {None}
                  ELSE {Some(v) : v \in Method1Outcomes(res, Unwrap(ret))}) :
          last' = [op |-> "get", arg |-> Some(r),
                   from |-> 0, m |-> 0, ret |-> ret, obs |-> o]
  /\ UNCHANGED <<refWords, status, ctor, panicAt, res, it,
                 nRegs, order, latest, res0, muts>>

\* table.get(r), followed by method1 on the result
Get(r) ==
  /\ status = "ready"
  /\ it.kind = "none"
  /\ LET ret == get(table, r) IN
     \E o \in (IF ret = None THEN {None}
               ELSE {Some(v) : v \in Method1Outcomes(res, Unwrap(ret))}) :
       last' = [op |-> "get", arg |-> Some(r),
                from |-> 0, m |-> 0, ret |-> ret, obs |-> o]
  /\ UNCHANGED <<refWords, status, ctor, panicAt, table, res, it,
                 nRegs, order, latest, res0, muts>>

\* table.get_mut(r), followed by method1 on the result
GetMut(r) ==
  /\ status = "ready"
  /\ it.kind = "none"
  /\ LET ret == get_mut(table, r) IN
     \E o \in (IF ret = None THEN {None}
               ELSE {Some(v) : v \in Method1Outcomes(res, Unwrap(ret))}) :
       last' = [op |-> "get_mut", arg |-> Some(r),
                from |-> 0, m |-> 0, ret |-> ret, obs |-> o]
  /\ UNCHANGED <<refWords, status, ctor, panicAt, table, res, it,
                 nRegs, order, latest, res0, muts>>

Iter_from1 ==
  /\ status = "ready"
  /\ it.kind = "none"
  /\ it' = [NoIter EXCEPT !.kind = "iter", !.index = 1]
  /\ last' = NoLast
  /\ UNCHANGED <<refWords, status, ctor, panicAt, table, res,
                 nRegs, order, latest, res0, muts>>

\* table.iter(&mut res)
Iter ==
  /\ status = "ready"
  /\ it.kind = "none"
  /\ it' = [NoIter EXCEPT !.kind = "iter"]
  /\ last' = NoLast
  /\ UNCHANGED <<refWords, status, ctor, panicAt, table, res,
                 nRegs, order, latest, res0, muts>>

\* table.iter_mut(&mut res)
IterMut ==
  /\ status = "ready"
  /\ it.kind = "none"
  /\ it' = [NoIter EXCEPT !.kind = "iter_mut"]
  /\ last' = NoLast
  /\ UNCHANGED <<refWords, status, ctor, panicAt, table, res,
                 nRegs, order, latest, res0, muts>>

\* iter.next() / iter_mut.next(), followed by method1 on the item
Next_ ==
  /\ it.kind # "none"
  /\ it.index < MaxIndex
  /\ LET r == IF it.kind = "iter"
              THEN MetaIterNext(table.fat, table.tys, res, it.index)
              ELSE MetaIterMutNext(table.fat, table.tys, res, it.index) IN
     \E o \in (IF r.item = None THEN {None}
               ELSE {Some(v) : v \in Method1Outcomes(res, Unwrap(r.item))}) :
       /\ it' = [it EXCEPT !.index = r.index,
                           !.yielded = @ \o r.item,
                           !.seen = @ \o o]
       /\ last' = [op |-> "next", arg |-> None,
                   from |-> it.index, m |-> 0, ret |-> r.item, obs |-> o]
  /\ UNCHANGED <<refWords, status, ctor, panicAt, table, res,
                 nRegs, order, latest, res0, muts>>

\* number of method2 calls made so far
NumMuts ==
  Len(muts[TypeIdOf("ImplementorA")]) + Len(muts[TypeIdOf("ImplementorB")])
    + Len(muts[TypeIdOf("Other")])

\* obj.method2(x) through the exclusive reference just obtained from
\* get_mut or iter_mut.next(), followed by obj.method1()
Method2(x) ==
  /\ \/ last.op = "get_mut"
     \/ last.op = "next" /\ it.kind = "iter_mut"
  /\ last.ret # None
  /\ NumMuts < MaxMuts
  /\ \E nv \in Method2Outcomes(res, Unwrap(last.ret), x) :
       LET addr == Unwrap(last.ret)[1]
           res1 == IF addr.loc = "res"
                   THEN [res EXCEPT ![addr.id] = Some([Unwrap(@) EXCEPT !.val = nv])]
                   ELSE res IN
       /\ res' = res1
       /\ muts' = [muts EXCEPT ![addr.id] = Append(@, x)]
       /\ \E o \in Method1Outcomes(res1, Unwrap(last.ret)) :
            last' = [last EXCEPT !.obs = Some(o), !.m = @ + 1]
  /\ UNCHANGED <<refWords, status, ctor, panicAt, table, it, nRegs, order,
                 latest, res0>>

\* the iterator goes out of scope
DropIter ==
  /\ it.kind # "none"
  /\ it' = NoIter
  /\ last' = NoLast
  /\ UNCHANGED <<refWords, status, ctor, panicAt, table, res,
                 nRegs, order, latest, res0, muts>>

Next ==
  \/ New
  \/ Default
  \/ \E t \in Implementors, c \in 1..NumVtableCopies, sv \in SampleVals :
       Register(t, c, sv)
  \/ \E t \in Implementors, v \in StoreVals : Insert(t, v)
  \/ Insert("Other", 1)
  \/ \E r \in Refs : Get(r)
  \/ \E r \in Refs : GetMut(r)
  \/ Iter
  \/ IterMut
  \/ Next_
  \/ Method2(3)
  \/ Method2(4)
  \/ DropIter

Spec == Init /\ [][Next]_vars

(* ------------------------- vocabulary of the claims -------------------- *)
\* position (from 1) of x in the sequence s, 0 when x does not occur
PosIn(s, x) ==
  IF \E i \in 1..Len(s) : s[i] = x
  THEN CHOOSE i \in 1..Len(s) : s[i] = x /\ \A j \in 1..(i - 1) : s[j] # x
  ELSE 0

\* the register calls so far included one for implementor t
Registered(t) == t \in Implementors /\ PosIn(order, t) > 0

\* the store holds a value of type t
Held(t) == res[TypeIdOf(t)] # None

\* position at which the live sequence yielded the store's value of type t
YieldPos(t) ==
  PosIn([i \in 1..Len(it.yielded) |-> it.yielded[i][1]], StoreAddr(TypeIdOf(t)))

(* ------------------------------- claims -------------------------------- *)
\* C1: for distinct implementors X1, X2 whose first register calls came in
\* the order X1 then X2 and whose values the store holds, a sequence made by
\* iter or iter_mut that has yielded X2's value yielded X1's value earlier.
C1_YieldsInRegistrationOrder ==
  it.kind # "none" =>
    \A x1, x2 \in Implementors :
      ( /\ Registered(x1) /\ Registered(x2)
        /\ PosIn(order, x1) < PosIn(order, x2)
        /\ Held(x1) /\ Held(x2)
        /\ YieldPos(x2) > 0 )
      => (YieldPos(x1) > 0 /\ YieldPos(x1) < YieldPos(x2))

\* B then A registered, with a re-registration interleaved, both yielded
C1_Witness ==
  /\ it.kind = "iter_mut"
  /\ nRegs = 3
  /\ order = <<"ImplementorB", "ImplementorA">>
  /\ YieldPos("ImplementorB") = 1
  /\ YieldPos("ImplementorA") = 2

\* C2: the registry holds exactly one entry per distinct implementor
\* registered, and a register call for an implementor that is already
\* registered keeps the number and the positions of the entries and puts
\* the vtable word it captured in that implementor's entry.
C2_OneEntryPerType ==
  /\ [](status = "ready" =>
          /\ Len(table.tys) = Len(order)
          /\ Len(table.fat) = Len(order)
          /\ Cardinality(DOMAIN table.indices) = Len(order)
          /\ \A t \in Implementors :
               Registered(t) =>
                 Cardinality({i \in 1..Len(table.tys) :
                                table.tys[i] = TypeIdOf(t)}) = 1)
  /\ [][(nRegs' = nRegs + 1 /\ order' = order) =>
          /\ table'.tys = table.tys
          /\ table'.indices = table.indices
          /\ Len(table'.fat) = Len(table.fat)
          /\ \A t \in Implementors :
               Registered(t) =>
                 table'.fat[table.indices[TypeIdOf(t)] + 1] = Unwrap(latest'[t])
        ]_vars

\* A registered twice with different vtable words around B's registration
C2_Witness ==
  /\ nRegs = 3
  /\ order = <<"ImplementorA", "ImplementorB">>
  /\ Len(table.tys) = 2
  /\ table.fat = <<Vtable("ImplementorA", 2), Vtable("ImplementorB", 1)>>

\* C3: get and get_mut on a value whose type was never registered return
\* None, whatever the registry and the store hold.
C3_UnregisteredIsAbsent ==
  (last.op \in {"get", "get_mut"} /\ ~Registered(Unwrap(last.arg).ty))
    => last.ret = None

\* get_mut on the store's ImplementorB while only ImplementorA is registered
C3_Witness ==
  /\ last.op = "get_mut"
  /\ Unwrap(last.arg).ty = "ImplementorB"
  /\ order = <<"ImplementorA">>
  /\ Held("ImplementorA")
  /\ last.ret = None

\* state of the store's value of type t
ValOf(t) == Unwrap(res[TypeIdOf(t)]).val

\* C4: for a registered type whose value the store holds, get and get_mut
\* return a reference to exactly the store's instance with that type's
\* vtable; a method2 call through the reference of get_mut changes that
\* value alone, by its own type's method2, and every get reports the
\* value's current state.
C4_GetDenotesStoredInstance ==
  /\ []((last.op \in {"get", "get_mut"} /\ Registered(Unwrap(last.arg).ty)) =>
          /\ last.ret # None
          /\ Unwrap(last.ret)[1] = Unwrap(last.arg).addr
          /\ Unwrap(last.ret)[2] \in Vtables
          /\ Unwrap(last.ret)[2].vt = Unwrap(last.arg).ty
          /\ last.obs = Some(ValOf(Unwrap(last.arg).ty)))
  /\ [][(last.op = "get_mut" /\ last'.m = last.m + 1) =>
          LET t == Unwrap(last.arg).ty
              id == TypeIdOf(t)
              x == muts'[id][Len(muts'[id])] IN
          /\ res' = [res EXCEPT ![id] =
                       Some([ty |-> t, val |-> Method2Impl(t, ValOf(t), x)])]
          /\ last'.obs = Some(Method2Impl(t, ValOf(t), x))
        ]_vars

\* ImplementorB, registered second, multiplied by 4 through get_mut
C4_Witness ==
  /\ last.op = "get_mut"
  /\ last.m = 1
  /\ Unwrap(last.arg).ty = "ImplementorB"
  /\ order = <<"ImplementorA", "ImplementorB">>
  /\ Held("ImplementorA")
  /\ res0[TypeIdOf("ImplementorB")] = Some([ty |-> "ImplementorB", val |-> 1])
  /\ muts[TypeIdOf("ImplementorB")] = <<4>>
  /\ last.obs = Some(4)

\* first position after p (from 1) in the registration order whose type the
\* store holds, 0 when there is none
FirstHeldAfter(p) ==
  IF \E j \in (p + 1)..Len(order) : Held(order[j])
  THEN CHOOSE j \in (p + 1)..Len(order) :
         Held(order[j]) /\ \A k \in (p + 1)..(j - 1) : ~Held(order[k])
  ELSE 0

\* C5: a next() whose cursor is at a registered type the store does not
\* hold, while the store holds a type registered later, does not return
\* None: it returns the value of the first such later type.
C5_SkipsAbsentTypes ==
  ( /\ last.op = "next"
    /\ last.from < Len(order)
    /\ ~Held(order[last.from + 1])
    /\ FirstHeldAfter(last.from + 1) > 0 )
  => /\ last.ret # None
     /\ Unwrap(last.ret)[1] =
          StoreAddr(TypeIdOf(order[FirstHeldAfter(last.from + 1)]))

\* first next() of iter with ImplementorA registered but only ImplementorB held
C5_Witness ==
  /\ it.kind = "iter"
  /\ last.op = "next"
  /\ last.from = 0
  /\ order = <<"ImplementorA", "ImplementorB">>
  /\ ~Held("ImplementorA")
  /\ Held("ImplementorB")
  /\ last.ret # None

\* state of the store's value an item refers to
ItemVal(item) == Unwrap(Load(res, item[1])).val

\* C6: what method1 reports through an item of iter or iter_mut is the
\* state of the store's value, never that of a sample given to register;
\* with ImplementorA (3) and ImplementorB (1) held and registered in that
\* order, the two items report 3 then 1.
C6_ItemsReportStoredState ==
  /\ (last.op = "next" /\ last.ret # None) =>
       /\ last.obs = Some(ItemVal(Unwrap(last.ret)))
       /\ Unwrap(last.obs) \notin SampleVals
  /\ it.kind = "iter" =>
       \A k \in 1..Len(it.yielded) : it.seen[k] = ItemVal(it.yielded[k])
  /\ ( /\ it.kind # "none"
       /\ order = <<"ImplementorA", "ImplementorB">>
       /\ NumMuts = 0
       /\ res0[TypeIdOf("ImplementorA")] = Some([ty |-> "ImplementorA", val |-> 3])
       /\ res0[TypeIdOf("ImplementorB")] = Some([ty |-> "ImplementorB", val |-> 1])
       /\ Len(it.yielded) = 2 )
     => it.seen = <<3, 1>>

\* the scenario of test_iter_all after the second next() of iter
C6_Witness ==
  /\ it.kind = "iter"
  /\ order = <<"ImplementorA", "ImplementorB">>
  /\ nRegs = 2
  /\ it.seen = <<3, 1>>
  /\ last.op = "next"

\* method2 applied in turn with the arguments of xs to state v of type t
RECURSIVE Replay(_, _, _)
Replay(t, v, xs) ==
  IF xs = <<>> THEN v
  ELSE Replay(t, Method2Impl(t, v, Head(xs)), Tail(xs))

\* C7: a method2 call through an item of iter_mut changes the store's value
\* of that item's type alone, by that type's own method2; every held value
\* is its inserted state with the calls made on it applied, and that is
\* what every later item reports: ImplementorA (3) plus 3 and ImplementorB
\* (1) times 4 are then reported by iter as 6 and 4.
C7_IterMutMutatesStoredValue ==
  /\ [](\A t \in Implementors :
          Held(t) =>
            ValOf(t) = Replay(t, Unwrap(res0[TypeIdOf(t)]).val, muts[TypeIdOf(t)]))
  /\ []((last.op = "next" /\ last.ret # None) =>
          last.obs = Some(ItemVal(Unwrap(last.ret))))
  /\ []( ( /\ it.kind = "iter"
            /\ order = <<"ImplementorA", "ImplementorB">>
            /\ res0[TypeIdOf("ImplementorA")] = Some([ty |-> "ImplementorA", val |-> 3])
            /\ res0[TypeIdOf("ImplementorB")] = Some([ty |-> "ImplementorB", val |-> 1])
            /\ muts[TypeIdOf("ImplementorA")] = <<3>>
            /\ muts[TypeIdOf("ImplementorB")] = <<4>>
            /\ Len(it.yielded) = 2 )
          => it.seen = <<6, 4>> )
  /\ [][(last.op = "next" /\ it.kind = "iter_mut" /\ last'.m = last.m + 1) =>
          LET id == Unwrap(last.ret)[1].id
              t == CHOOSE u \in ResourceTypes : TypeIdOf(u) = id
              x == muts'[id][Len(muts'[id])] IN
          res' = [res EXCEPT ![id] =
                    Some([ty |-> t, val |-> Method2Impl(t, ValOf(t), x)])]
        ]_vars

\* the scenario of test_iter_all right after obj.method2(4) on the second
\* item of iter_mut: both items were reported as 3 and 1 and are now 6 and 4
C7_Witness ==
  /\ it.kind = "iter_mut"
  /\ last.op = "next"
  /\ last.m = 1
  /\ order = <<"ImplementorA", "ImplementorB">>
  /\ it.seen = <<3, 1>>
  /\ muts[TypeIdOf("ImplementorA")] = <<3>>
  /\ muts[TypeIdOf("ImplementorB")] = <<4>>
  /\ ValOf("ImplementorA") = 6
  /\ ValOf("ImplementorB") = 4

\* C8: on a registry on which register was never called, whatever the store
\* holds, next() of iter and iter_mut returns None and get and get_mut
\* return None for every value.
C8_EmptyRegistryYieldsNothing ==
  (status = "ready" /\ nRegs = 0) =>
    /\ last.op \in {"next", "get", "get_mut"} => last.ret = None
    /\ it.yielded = <<>>

\* first next() of iter over a store holding all three resources
C8_Witness ==
  /\ nRegs = 0
  /\ it.kind = "iter"
  /\ last.op = "next"
  /\ last.from = 0
  /\ Held("ImplementorA") /\ Held("ImplementorB") /\ Held("Other")
  /\ last.ret = None

\* C9: no register call on a registry obtained from a public constructor
\* fails the shape assertion.
C9_RegisterNeverFailsAssertion ==
  panicAt # "register"

\* C10: MetaTable::new fails at once, producing no registry, when the
\* reference of the interface is not two words, and otherwise returns a
\* registry without entries.
C10_NewFailsFastOrIsEmpty ==
  [][(status = "start" /\ status' # "start" /\ ctor' # "default") =>
       IF refWords = 2
       THEN /\ status' = "ready"
            /\ ctor' = "new"
            /\ table' = [fat |-> <<>>, indices |-> <<>>, tys |-> <<>>]
            /\ panicAt' = "none"
       ELSE /\ status' = "panicked"
            /\ panicAt' = "new"
            /\ table' = NoTable
            /\ ctor' = "none"
    ]_vars

\* new() on an interface with a one-word reference has panicked
C10_Witness ==
  /\ refWords = 1
  /\ status = "panicked"
  /\ panicAt = "new"
  /\ table = NoTable
\* C11: get, get_mut, iter, iter_mut and every next() leave the registry as
\* it was: fat, indices and tys are the same after the call as before,
\* whether the call returned a reference or None.
C11_LookupsLeaveRegistryUnchanged ==
  [][( /\ nRegs' = nRegs
       /\ \/ last'.op \in {"get", "get_mut", "next"}
          \/ it'.kind # "none" )
     => /\ table'.fat = table.fat
        /\ table'.indices = table.indices
        /\ table'.tys = table.tys
    ]_vars

\* get on the store's unregistered ImplementorB returned None and the
\* registry still holds ImplementorA's entry alone
C11_Witness ==
  /\ last.op = "get"
  /\ Unwrap(last.arg).ty = "ImplementorB"
  /\ last.ret = None
  /\ nRegs = 2
  /\ table.tys = <<TypeIdOf("ImplementorA")>>
  /\ DOMAIN table.indices = {TypeIdOf("ImplementorA")}
  /\ table.fat = <<Vtable("ImplementorA", 2)>>
\* store addresses of the values of the types of s that the store holds, in
\* the order of s
RECURSIVE HeldInOrder(_)
HeldInOrder(s) ==
  IF s = <<>> THEN <<>>
  ELSE (IF Held(Head(s)) THEN <<StoreAddr(TypeIdOf(Head(s)))>> ELSE <<>>)
         \o HeldInOrder(Tail(s))

\* data addresses of the items the live sequence has yielded so far
YieldedAddrs == [i \in 1..Len(it.yielded) |-> it.yielded[i][1]]

IsPrefix(a, b) == Len(a) <= Len(b) /\ \A i \in 1..Len(a) : a[i] = b[i]

\* C12: the items of iter and of iter_mut up to the first None are the
\* store's values of the registered types the store holds, in registration
\* order, each once, and nothing else.
C12_SequenceIsHeldRegisteredTypes ==
  it.kind # "none" =>
    /\ IsPrefix(YieldedAddrs, HeldInOrder(order))
    /\ (last.op = "next" /\ last.ret = None) =>
         /\ Len(YieldedAddrs) = Len(HeldInOrder(order))
         /\ \A i \in 1..Len(YieldedAddrs) : YieldedAddrs[i] = HeldInOrder(order)[i]

\* iter_mut ran to its first None over a store that holds the unregistered
\* Other and ImplementorB but not the first registered ImplementorA
C12_Witness ==
  /\ it.kind = "iter_mut"
  /\ last.op = "next"
  /\ last.ret = None
  /\ order = <<"ImplementorA", "ImplementorB">>
  /\ ~Held("ImplementorA")
  /\ Held("ImplementorB")
  /\ Held("Other")
  /\ Len(it.yielded) = 1
  /\ it.yielded[1][1] = StoreAddr(TypeIdOf("ImplementorB"))
\* the reference ptr pairs the address of a live store value with the
\* vtable word the latest register call captured for that value's type
PairsOwnWitness(ptr) ==
  LET obj == Load(res, ptr[1]) IN
  /\ obj # None
  /\ Unwrap(obj).ty \in Implementors
  /\ latest[Unwrap(obj).ty] = Some(ptr[2])

\* C13: every reference rebuilt by get, get_mut, MetaIter::next and
\* MetaIterMut::next pairs a data address with the Witness registered for
\* the concrete type of the value at that address, re-registrations
\* included: the Witness stored at the index used is that type's latest.
C13_WitnessMatchesValueType ==
  /\ last.ret # None => PairsOwnWitness(Unwrap(last.ret))
  /\ \A i \in 1..Len(it.yielded) : PairsOwnWitness(it.yielded[i])
  /\ \A t \in Implementors :
       TypeIdOf(t) \in DOMAIN table.indices =>
         Some(At(table.fat, table.indices[TypeIdOf(t)])) = latest[t]
  /\ \A i \in 1..Len(table.tys) :
       \E t \in Implementors :
         table.tys[i] = TypeIdOf(t) /\ Some(table.fat[i]) = latest[t]

\* second item of iter after ImplementorB was registered again with another
\* vtable word
C13_Witness ==
  /\ it.kind = "iter"
  /\ last.op = "next"
  /\ nRegs = 3
  /\ order = <<"ImplementorA", "ImplementorB">>
  /\ table.fat = <<Vtable("ImplementorA", 1), Vtable("ImplementorB", 2)>>
  /\ Len(it.yielded) = 2
  /\ last.ret = Some(<<StoreAddr(TypeIdOf("ImplementorB")), Vtable("ImplementorB", 2)>>)
C15_RegisterAppends ==
  [][(nRegs' = nRegs + 1) =>
       /\ Len(table'.tys) >= Len(table.tys)
       /\ Len(table'.fat) >= Len(table.fat)
       /\ DOMAIN table.indices \subseteq DOMAIN table'.indices
       /\ \A i \in 1..Len(table.tys) : table'.tys[i] = table.tys[i]
       /\ \A k \in DOMAIN table.indices : table'.indices[k] = table.indices[k]
       /\ (Len(order') = Len(order) + 1) =>
            LET t == order'[Len(order')]
                id == TypeIdOf(t) IN
            /\ id \notin DOMAIN table.indices
            /\ table'.tys = Append(table.tys, id)
            /\ table'.fat = Append(table.fat, Unwrap(latest'[t]))
            /\ DOMAIN table'.indices = DOMAIN table.indices \cup {id}
            /\ table'.indices[id] = Len(table.tys)
     ]_vars

\* ImplementorB registered after ImplementorA: entry 1 is its own, entry 0
\* is ImplementorA's as registered
C15_Witness ==
  /\ nRegs = 2
  /\ order = <<"ImplementorA", "ImplementorB">>
  /\ table.tys = <<TypeIdOf("ImplementorA"), TypeIdOf("ImplementorB")>>
  /\ table.indices[TypeIdOf("ImplementorB")] = 1
  /\ table.indices[TypeIdOf("ImplementorA")] = 0
  /\ table.fat = <<Vtable("ImplementorA", 2), Vtable("ImplementorB", 1)>>

\* C16: fat, tys and indices have the same size, tys has no duplicates,
\* and indices sends the type at position i of tys to i, so every index in
\* the map is a position of both lists.
C16_CollectionsAgree ==
  /\ Len(table.fat) = Len(table.tys)
  /\ Cardinality(DOMAIN table.indices) = Len(table.tys)
  /\ \A i, j \in 1..Len(table.tys) :
       table.tys[i] = table.tys[j] => i = j
  /\ \A i \in 1..Len(table.tys) :
       /\ table.tys[i] \in DOMAIN table.indices
       /\ table.indices[table.tys[i]] = i - 1
  /\ \A k \in DOMAIN table.indices :
       /\ table.indices[k] >= 0
       /\ table.indices[k] < Len(table.fat)
       /\ table.indices[k] < Len(table.tys)

\* two entries after three register calls on a registry made by default()
C16_Witness ==
  /\ ctor = "default"
  /\ nRegs = 3
  /\ Len(table.tys) = 2
  /\ Len(table.fat) = 2
  /\ table.indices[TypeIdOf("ImplementorB")] = 0
  /\ table.indices[TypeIdOf("ImplementorA")] = 1
\* data addresses of the items a fresh iter (RunIter) and a fresh iter_mut
\* (RunIterMut) over the current registry and store return from cursor
\* index up to their first None
RECURSIVE RunIter(_)
RunIter(index) ==
  LET r == MetaIterNext(table.fat, table.tys, res, index) IN
  IF r.item = None THEN <<>>
  ELSE <<Unwrap(r.item)[1]>> \o RunIter(r.index)

RECURSIVE RunIterMut(_)
RunIterMut(index) ==
  LET r == MetaIterMutNext(table.fat, table.tys, res, index) IN
  IF r.item = None THEN <<>>
  ELSE <<Unwrap(r.item)[1]>> \o RunIterMut(r.index)

\* C17: over the same registry and the same store contents, iter and
\* iter_mut visit the same concrete types in the same order and return the
\* same number of items; the live sequence of either kind follows that
\* common run.
C17_IterAndIterMutAgree ==
  status = "ready" =>
    /\ Len(RunIter(0)) = Len(RunIterMut(0))
    /\ \A i \in 1..Len(RunIter(0)) : RunIter(0)[i] = RunIterMut(0)[i]
    /\ it.kind = "iter" => IsPrefix(YieldedAddrs, RunIterMut(0))
    /\ it.kind = "iter_mut" => IsPrefix(YieldedAddrs, RunIter(0))
    /\ (it.kind = "iter" /\ last.op = "next" /\ last.ret = None) =>
         Len(it.yielded) = Len(RunIterMut(0))
    /\ (it.kind = "iter_mut" /\ last.op = "next" /\ last.ret = None) =>
         Len(it.yielded) = Len(RunIter(0))

\* iter_mut ran to None over three registered-or-not resources, of which
\* the first registered is not held: one item, as a fresh iter would give
C17_Witness ==
  /\ it.kind = "iter_mut"
  /\ last.op = "next"
  /\ last.ret = None
  /\ order = <<"ImplementorB", "ImplementorA">>
  /\ ~Held("ImplementorB")
  /\ Held("ImplementorA")
  /\ Len(it.yielded) = 1
  /\ RunIter(0) = <<StoreAddr(TypeIdOf("ImplementorA"))>>
====
